---- MODULE Spec2Model ----
(***************************************************************************)
(* State-machine model of the vemi lexers: the shared cursor (Lexer), the  *)
(* line-oriented BlockLexer and the character-oriented InlineLexer.        *)
(*                                                                         *)
(* A JavaScript string is a sequence of one-character strings.  null and   *)
(* undefined are one-element sequences holding a word, which no sequence   *)
(* of characters equals.  Offsets are 0-based as in the source, so the     *)
(* character at offset i is source[i + 1].                                 *)
(***************************************************************************)
EXTENDS Integers, Sequences, FiniteSets, TLC

VARIABLES
  kind,                 \* which subclass this instance is: "block" | "inline"
  source,               \* Lexer.source
  tokens,               \* Lexer.tokens
  current,              \* Lexer.current
  line,                 \* Lexer.line
  column,               \* Lexer.column
  inCodeBlock,          \* BlockLexer.inCodeBlock
  currentFence,         \* BlockLexer.currentFence
  codeBlockLineNumber,  \* BlockLexer.codeBlockLineNumber
  inCodeSpan,           \* InlineLexer.inCodeSpan
  emphasisMarker,       \* InlineLexer.emphasisMarker
  strongMarker,         \* InlineLexer.strongMarker
  scans,                \* the number of scanToken calls tokenize() has made
  pc,                   \* "new" before the constructor has run, then the
                        \* position in tokenize(): "loop" | "done"
  ret,                  \* the last call of a cursor primitive and what it returned
  self,                 \* which instance the fields above belong to: "A" | "B"
  other,                \* the fields of the instance that is not running
  ref                   \* the tokens instance A returned when it ran alone

vars == <<kind, source, tokens, current, line, column, inCodeBlock,
          currentFence, codeBlockLineNumber, inCodeSpan, emphasisMarker,
          strongMarker, scans, pc, ret, self, other, ref>>

\* the fields of one instance
instanceVars == <<kind, source, tokens, current, line, column, inCodeBlock,
                  currentFence, codeBlockLineNumber, inCodeSpan, emphasisMarker,
                  strongMarker, scans, pc>>

\* what lies outside the running instance
harnessVars == <<ret, self, other, ref>>

blockVars == <<inCodeBlock, currentFence, codeBlockLineNumber>>

inlineVars == <<inCodeSpan, emphasisMarker, strongMarker>>

----------------------------------------------------------------------------
(* Characters and values *)

LF == "\n"

CR == "\r"

TAB == "\t"

\* the backtick character (the parser of TLA+ does not accept it inside a string)
BT == "BACKTICK"

\* the sentinel character '\0' returned past the end of the source
NUL == "NUL"

NULL == <<"null">>

\* what indexing a string outside its elements gives (undefined), as a
\* character value
NOCHAR == "undefined"

UNDEFINED == <<"undefined">>

\* the characters matched by \s and stripped by trim()
IsSpace(ch) == ch \in {" ", TAB, CR, LF}

\* the characters the regular expression dot does not match
IsLineTerminator(ch) == ch \in {LF, CR}

\* the characters matched by \d
Digits == {"0", "1", "2", "3", "4", "5", "6", "7", "8", "9"}

DigitValue(ch) ==
  CASE ch = "0" -> 0 [] ch = "1" -> 1 [] ch = "2" -> 2 [] ch = "3" -> 3
    [] ch = "4" -> 4 [] ch = "5" -> 5 [] ch = "6" -> 6 [] ch = "7" -> 7
    [] ch = "8" -> 8 [] ch = "9" -> 9

----------------------------------------------------------------------------
(* Bounds and the inputs drawn from them *)

MaxLines == 3

MaxFenceLines == 6

MaxPieces == 3

MaxMarkerPieces == 5

\* no run of the tokenize loop is followed beyond this many iterations
\* the number of lines of a document of edge-case lines
MaxEdgeLines == 1

\* the length of a source handed to the cursor primitives
MaxCursorLen == 2

\* the length of an expected string handed to matchString
MaxExpectedLen == 2

\* the largest distance of a lookahead, in either direction
MaxOffset == 2

\* the number of pieces, or of lines, of a source given to one of two
\* instances that run side by side
MaxPairPieces == 2

\* the number of pieces of a link url
MaxUrlPieces == 2

MaxScans == 12

SeqsUpTo(S, n) == UNION {[1..k -> S] : k \in 0..n}

RECURSIVE Concat(_)
Concat(ss) == IF ss = <<>> THEN <<>> ELSE Head(ss) \o Concat(Tail(ss))

RECURSIVE JoinLines(_)
JoinLines(ls) ==
  IF ls = <<>> THEN <<>>
  ELSE IF Len(ls) = 1 THEN Head(ls)
  ELSE Head(ls) \o <<LF>> \o JoinLines(Tail(ls))

\* lines of every block kind, to be joined by line-feeds
BlockLines ==
  { <<BT, BT, BT>>, <<"~", "~", "~">>, <<BT, BT, BT, "t", "s">>,
    <<>>, <<" ">>, <<"a">>,
    <<"#", " ", "a">>, <<"1", ".", " ", "a">>, <<"-", " ", "a">>,
    <<">", " ", "a">> }

\* lines for longer fenced documents
FenceLines ==
  { <<BT, BT, BT>>, <<"~", "~", "~">>, <<"a">> }

LineDocs(ls, n) ==
  { JoinLines(d) \o t : d \in SeqsUpTo(ls, n), t \in {<<>>, <<LF>>} }

\* lines at the edges of the heading, blockquote and text rules
EdgeLines ==
  { <<"#">>, <<"#", " ">>, <<"#", "a">>, <<"#", TAB, "a">>, <<"#", " ", " ", "a">>,
    <<"#", " ", "a", CR>>, <<"#", CR>>,
    <<"#", "#", "#", "#", "#", "#", " ", "a">>,
    <<"#", "#", "#", "#", "#", "#", "#", " ", "a">>,
    <<">">>, <<">", "a">>, <<">", " ", " ", "a">>, <<">", TAB, "a">>,
    <<" ", "a">> }

BlockSources ==
  LineDocs(BlockLines, MaxLines) \cup LineDocs(FenceLines, MaxFenceLines)
    \cup LineDocs(EdgeLines, MaxEdgeLines)

InlinePieces ==
  { <<"*", "*">>, <<"_", "_">>, <<"*">>, <<"_">>, <<BT>>, <<"[">>, <<"]">>,
    <<"(">>, <<")">>, <<"a">>, <<LF>> }

\* pieces for longer texts of emphasis and strong markers
MarkerPieces == { <<"*", "*">>, <<"_", "_">>, <<"*">>, <<"_">>, <<"a">> }

\* the characters of a url, the inline delimiters among them
UrlPieces == { <<"*">>, <<"_">>, <<BT>>, <<"[">>, <<"]">>, <<"a">> }

\* texts with a link url: some marker opened or not, the bracket and the
\* parenthesis, the url, and the url closed or not
UrlSources ==
  { before \o <<"]", "(">> \o Concat(ps) \o after :
      before \in { <<>>, <<"*", "*">>, <<"_">>, <<BT>> },
      ps \in SeqsUpTo(UrlPieces, MaxUrlPieces),
      after \in { <<>>, <<")">>, <<")", "*">> } }

InlineSources ==
  { Concat(ps) : ps \in SeqsUpTo(InlinePieces, MaxPieces) }
    \cup { Concat(ps) : ps \in SeqsUpTo(MarkerPieces, MaxMarkerPieces) }
    \cup UrlSources

----------------------------------------------------------------------------
(* Lexer: the cursor primitives, on a cursor value [current, line, column] *)

Cursor == [current |-> current, line |-> line, column |-> column]

isAtEnd(c) == c.current >= Len(source)

\* only the upper end is tested: a negative index reads source[index], which
\* is not an element of the string
peek(c, offset) ==
  LET index == c.current + offset
  IN IF index >= Len(source) THEN NUL
     ELSE IF index < 0 THEN NOCHAR
     ELSE source[index + 1]

\* advance() leaving the column counter running over a line-feed
advance_columnKept(c) ==
  IF isAtEnd(c) THEN c
  ELSE LET char == source[c.current + 1]
       IN [current |-> c.current + 1,
           line    |-> IF char = LF THEN c.line + 1 ELSE c.line,
           column  |-> c.column + 1]

\* the cursor after advance(); the character advance() returns is peek(c, 0)
advance(c) ==
  IF isAtEnd(c) THEN c
  ELSE LET char == source[c.current + 1]
       IN [current |-> c.current + 1,
           line    |-> IF char = LF THEN c.line + 1 ELSE c.line,
           column  |-> IF char = LF THEN 1 ELSE c.column + 1]

match(c, expected) ==
  IF isAtEnd(c) THEN [ok |-> FALSE, cur |-> c]
  ELSE IF source[c.current + 1] # expected THEN [ok |-> FALSE, cur |-> c]
  ELSE [ok |-> TRUE, cur |-> advance(c)]

RECURSIVE advanceTimes(_, _)
advanceTimes(c, n) == IF n = 0 THEN c ELSE advanceTimes(advance(c), n - 1)

\* matchString consuming by adding the length to the offset, without
\* advance()
matchString_jump(c, expected) ==
  IF \E i \in 1..Len(expected) : peek(c, i - 1) # expected[i]
  THEN [ok |-> FALSE, cur |-> c]
  ELSE [ok |-> TRUE, cur |-> [c EXCEPT !.current = @ + Len(expected)]]

matchString(c, expected) ==
  IF \E i \in 1..Len(expected) : peek(c, i - 1) # expected[i]
  THEN [ok |-> FALSE, cur |-> c]
  ELSE [ok |-> TRUE, cur |-> advanceTimes(c, Len(expected))]

getPosition(c) == [line |-> c.line, column |-> c.column]

\* the loop of tokenize() written as do .. while: the body runs once before
\* the first test
loopCondition_doWhile(c, n) == n = 0 \/ ~isAtEnd(c)

\* the test of the while loop of tokenize(), at the cursor c after n calls
\* of scanToken
loopCondition(c, n) == ~isAtEnd(c)

emit(toks, token) == Append(toks, token)

----------------------------------------------------------------------------
(* BlockLexer helpers *)

\* readLineLoop appending the character before it tests for the line-feed
RECURSIVE readLineLoop_includeLF(_, _)
readLineLoop_includeLF(c, result) ==
  IF isAtEnd(c) THEN [result |-> result, cur |-> c]
  ELSE IF peek(c, 0) = LF THEN [result |-> Append(result, LF), cur |-> advance(c)]
  ELSE readLineLoop_includeLF(advance(c), Append(result, peek(c, 0)))

\* the loop of readLine; result is the text accumulated so far
RECURSIVE readLineLoop(_, _)
readLineLoop(c, result) ==
  IF isAtEnd(c) THEN [result |-> result, cur |-> c]
  ELSE IF peek(c, 0) = LF THEN [result |-> result, cur |-> advance(c)]
  ELSE readLineLoop(advance(c), Append(result, peek(c, 0)))

readLine(c) == readLineLoop(c, <<>>)

startsWith(s, prefix) ==
  /\ Len(s) >= Len(prefix)
  /\ \A i \in 1..Len(prefix) : s[i] = prefix[i]

slice(s, from) == IF from >= Len(s) THEN <<>> ELSE SubSeq(s, from + 1, Len(s))

RECURSIVE trimStart(_)
trimStart(s) ==
  IF s # <<>> /\ IsSpace(Head(s)) THEN trimStart(Tail(s)) ELSE s

RECURSIVE trimEnd(_)
trimEnd(s) ==
  IF s # <<>> /\ IsSpace(s[Len(s)]) THEN trimEnd(SubSeq(s, 1, Len(s) - 1)) ELSE s

trim(s) == trimEnd(trimStart(s))

getFence(ln) ==
  IF startsWith(ln, <<BT, BT, BT>>) THEN <<BT, BT, BT>>
  ELSE IF startsWith(ln, <<"~", "~", "~">>) THEN <<"~", "~", "~">>
  ELSE NULL

\* isFence accepting the fence of either family
isFence_anyFamily(ln, fence) == fence # NULL /\ getFence(ln) # NULL

isFence(ln, fence) == fence # NULL /\ startsWith(ln, fence)

\* the first run of non-whitespace characters: rest.match(/^(\S+)/)
RECURSIVE nonSpaceRun(_)
nonSpaceRun(s) ==
  IF s = <<>> \/ IsSpace(Head(s)) THEN <<>>
  ELSE <<Head(s)>> \o nonSpaceRun(Tail(s))

extractLanguage(ln, fence) ==
  LET rest == trim(slice(ln, Len(fence)))
  IN IF rest = <<>> THEN UNDEFINED ELSE nonSpaceRun(rest)

----------------------------------------------------------------------------
(* The four regular expressions of BlockLexer.scanToken.  Each is, from    *)
(* the start of the line to its end: a captured run of h head characters,  *)
(* a literal, a run of w whitespace characters (\s), and a captured rest   *)
(* of characters matched by the dot, which matches no line terminator.     *)
(* Quantifiers are greedy with backtracking, so the match found is the     *)
(* one with the longest head and then the longest whitespace run.          *)

Min(a, b) == IF a <= b THEN a ELSE b

regexSplits(ln, headSet, hmin, hmax, lit, wmin, wmax) ==
  { p \in (hmin..Min(hmax, Len(ln))) \X (wmin..Min(wmax, Len(ln))) :
      /\ p[1] + Len(lit) + p[2] <= Len(ln)
      /\ \A i \in 1..p[1] : ln[i] \in headSet
      /\ \A i \in 1..Len(lit) : ln[p[1] + i] = lit[i]
      /\ \A i \in 1..p[2] : IsSpace(ln[p[1] + Len(lit) + i])
      /\ \A i \in (p[1] + Len(lit) + p[2] + 1)..Len(ln) : ~IsLineTerminator(ln[i]) }

regexMatch(ln, headSet, hmin, hmax, lit, wmin, wmax) ==
  LET S == regexSplits(ln, headSet, hmin, hmax, lit, wmin, wmax)
  IN IF S = {} THEN [ok |-> FALSE, g1 |-> <<>>, g2 |-> <<>>]
     ELSE LET p == CHOOSE x \in S : \A y \in S :
                     y[1] < x[1] \/ (y[1] = x[1] /\ y[2] <= x[2])
          IN [ok |-> TRUE,
              g1 |-> SubSeq(ln, 1, p[1]),
              g2 |-> slice(ln, p[1] + Len(lit) + p[2])]

\* the heading expression: 1 to 6 #, then \s+, then the rest
headingMatch(ln) == regexMatch(ln, {"#"}, 1, 6, <<>>, 1, Len(ln))

\* the ordered list expression: \d+, a dot, then \s+, then the rest
orderedMatch(ln) ==
  regexMatch(ln, Digits, 1, Len(ln), <<".">>, 1, Len(ln))

\* the unordered list expression: one of - * +, then \s+, then the rest
listMatch(ln) == regexMatch(ln, {"-", "*", "+"}, 1, 1, <<>>, 1, Len(ln))

\* the blockquote expression: >, then \s?, then the rest
quoteMatch(ln) == regexMatch(ln, {">"}, 1, 1, <<>>, 0, 1)

RECURSIVE parseInt(_)
parseInt(digits) ==
  IF digits = <<>> THEN 0
  ELSE 10 * parseInt(SubSeq(digits, 1, Len(digits) - 1)) + DigitValue(digits[Len(digits)])

----------------------------------------------------------------------------
(* Block tokens *)

CodeBlockEndToken(pos, fence) ==
  [type |-> "codeBlockEnd", position |-> pos, fence |-> fence]

\* CodeBlockContentToken with the line trimmed
CodeBlockContentToken_trimmed(pos, ln, n) ==
  [type |-> "codeBlockContent", position |-> pos, content |-> trim(ln), lineInBlock |-> n]

\* CodeBlockContentToken numbering the lines from 0
CodeBlockContentToken_zeroBased(pos, ln, n) ==
  [type |-> "codeBlockContent", position |-> pos, content |-> ln, lineInBlock |-> n - 1]

CodeBlockContentToken(pos, ln, n) ==
  [type |-> "codeBlockContent", position |-> pos, content |-> ln, lineInBlock |-> n]

BlankLineToken(pos) == [type |-> "blankLine", position |-> pos]

CodeBlockStartToken(pos, fence, language) ==
  [type |-> "codeBlockStart", position |-> pos, fence |-> fence, language |-> language]

HeadingToken(pos, m) ==
  [type |-> "heading", position |-> pos, level |-> Len(m.g1), content |-> m.g2]

OrderedListItemToken(pos, m) ==
  [type |-> "orderedListItem", position |-> pos, number |-> parseInt(m.g1),
   content |-> m.g2]

ListItemToken(pos, m) ==
  [type |-> "listItem", position |-> pos, marker |-> m.g1, content |-> m.g2]

BlockquoteToken(pos, m) ==
  [type |-> "blockquote", position |-> pos, content |-> m.g2]

\* a textLine whose content has lost the whitespace around the line
TextLineToken_trimmed(pos, ln) == [type |-> "textLine", position |-> pos, content |-> trim(ln)]

TextLineToken(pos, ln) == [type |-> "textLine", position |-> pos, content |-> ln]

\* the blank-line test written to need at least one whitespace character
isBlank_someSpace(ln) == ln # <<>> /\ trim(ln) = <<>>

\* the test of rule 2: the line is empty after trimming
isBlank(ln) == trim(ln) = <<>>

\* the token of a line read outside a fence that is neither blank nor a fence
plainLineToken(pos, ln) ==
  IF headingMatch(ln).ok THEN HeadingToken(pos, headingMatch(ln))
  ELSE IF orderedMatch(ln).ok THEN OrderedListItemToken(pos, orderedMatch(ln))
  ELSE IF listMatch(ln).ok THEN ListItemToken(pos, listMatch(ln))
  ELSE IF quoteMatch(ln).ok THEN BlockquoteToken(pos, quoteMatch(ln))
  ELSE TextLineToken(pos, ln)

----------------------------------------------------------------------------
(* InlineLexer helpers and tokens *)

\* INLINE_DELIMITERS with a delimiter that no rule of scanToken consumes
INLINE_DELIMITERS_paren == {"*", "_", BT, "[", "]", "("}

INLINE_DELIMITERS == {"*", "_", BT, "[", "]"}

\* the loop of readUntil stopping at every inline delimiter as well
RECURSIVE readUntilLoop_stopsAtDelimiter(_, _, _)
readUntilLoop_stopsAtDelimiter(c, terminator, result) ==
  IF ~isAtEnd(c) /\ peek(c, 0) # terminator /\ peek(c, 0) \notin INLINE_DELIMITERS
  THEN readUntilLoop_stopsAtDelimiter(advance(c), terminator, Append(result, peek(c, 0)))
  ELSE [result |-> result, cur |-> c]

\* the loop of readUntil; result is the text accumulated so far
RECURSIVE readUntilLoop(_, _, _)
readUntilLoop(c, terminator, result) ==
  IF ~isAtEnd(c) /\ peek(c, 0) # terminator
  THEN readUntilLoop(advance(c), terminator, Append(result, peek(c, 0)))
  ELSE [result |-> result, cur |-> c]

readUntil(c, terminator) == readUntilLoop(c, terminator, <<>>)

\* the loop of readUntilOneOf; result is the text accumulated so far
RECURSIVE readUntilOneOfLoop(_, _, _)
readUntilOneOfLoop(c, delimiters, result) ==
  IF isAtEnd(c) \/ peek(c, 0) \in delimiters
  THEN [result |-> result, cur |-> c]
  ELSE readUntilOneOfLoop(advance(c), delimiters, Append(result, peek(c, 0)))

readUntilOneOf(c, delimiters) == readUntilOneOfLoop(c, delimiters, <<>>)

TextToken(pos, content) == [type |-> "text", position |-> pos, content |-> content]

StrongStartToken(pos, marker) ==
  [type |-> "strongStart", position |-> pos, marker |-> marker]

StrongEndToken(pos, marker) ==
  [type |-> "strongEnd", position |-> pos, marker |-> marker]

EmphasisStartToken(pos, marker) ==
  [type |-> "emphasisStart", position |-> pos, marker |-> marker]

EmphasisEndToken(pos, marker) ==
  [type |-> "emphasisEnd", position |-> pos, marker |-> marker]

\* CodeSpanToken reading the flag after it has been toggled
CodeSpanToken_toggledFirst(pos, inSpan) ==
  [type |-> IF inSpan THEN "codeStart" ELSE "codeEnd", position |-> pos,
   marker |-> <<BT>>]

CodeSpanToken(pos, inSpan) ==
  [type |-> IF inSpan THEN "codeEnd" ELSE "codeStart", position |-> pos,
   marker |-> <<BT>>]

LinkStartToken(pos) == [type |-> "linkStart", position |-> pos]

LinkTextEndToken(pos) == [type |-> "linkTextEnd", position |-> pos]

LinkUrlToken(pos, url) == [type |-> "linkUrl", position |-> pos, url |-> url]

LinkEndToken(pos) == [type |-> "linkEnd", position |-> pos]

\* strongCase closing the open marker with either spelling
strongCase_closeAny(pos, marker, open) ==
  IF open = NULL
  THEN [token |-> StrongStartToken(pos, marker), marker |-> marker]
  ELSE [token |-> StrongEndToken(pos, marker), marker |-> NULL]

\* the token and the next strongMarker once matchString(marker) has succeeded
strongCase(pos, marker, open) ==
  IF open = NULL
  THEN [token |-> StrongStartToken(pos, marker), marker |-> marker]
  ELSE IF open = marker
  THEN [token |-> StrongEndToken(pos, marker), marker |-> NULL]
  ELSE [token |-> TextToken(pos, marker), marker |-> open]

\* the token and the next emphasisMarker once match(marker) has succeeded
\* emphasisCase opening a second emphasis when the other spelling is open
emphasisCase_nests(pos, marker, open) ==
  IF open = NULL
  THEN [token |-> EmphasisStartToken(pos, marker), marker |-> marker]
  ELSE IF open = marker
  THEN [token |-> EmphasisEndToken(pos, marker), marker |-> NULL]
  ELSE [token |-> EmphasisStartToken(pos, marker), marker |-> marker]

emphasisCase(pos, marker, open) ==
  IF open = NULL
  THEN [token |-> EmphasisStartToken(pos, marker), marker |-> marker]
  ELSE IF open = marker
  THEN [token |-> EmphasisEndToken(pos, marker), marker |-> NULL]
  ELSE [token |-> TextToken(pos, marker), marker |-> open]

\* linkUrlPart with the two positions exchanged
linkUrlPart_swapped(c) ==
  LET c1 == advance(c)
      urlStartPos == getPosition(c1)
      r == readUntil(c1, ")")
      endPos == getPosition(r.cur)
  IN [tokens |-> <<LinkUrlToken(endPos, r.result), LinkEndToken(urlStartPos)>>,
      cur |-> advance(r.cur)]

\* linkUrlPart emitting linkEnd only when a closing parenthesis was found
linkUrlPart_endIfClosed(c) ==
  LET c1 == advance(c)
      urlStartPos == getPosition(c1)
      r == readUntil(c1, ")")
      endPos == getPosition(r.cur)
  IN [tokens |-> IF peek(r.cur, 0) = ")"
                 THEN <<LinkUrlToken(urlStartPos, r.result), LinkEndToken(endPos)>>
                 ELSE <<LinkUrlToken(urlStartPos, r.result)>>,
      cur |-> advance(r.cur)]

\* the tokens of the url part of a link and the cursor after it, from the
\* cursor c that stands on the opening parenthesis
linkUrlPart(c) ==
  LET c1 == advance(c)
      urlStartPos == getPosition(c1)
      r == readUntil(c1, ")")
      endPos == getPosition(r.cur)
  IN [tokens |-> <<LinkUrlToken(urlStartPos, r.result), LinkEndToken(endPos)>>,
      cur |-> advance(r.cur)]

----------------------------------------------------------------------------
(* The state machine *)

SetCursor(c) ==
  /\ current' = c.current
  /\ line' = c.line
  /\ column' = c.column

\* no cursor primitive has been called from outside yet
NoCall == [op |-> "none"]

\* there is no second instance yet
NoInstance == [pc |-> "none"]

\* the field initialisers of Lexer, BlockLexer and InlineLexer
Init ==
  /\ kind \in {"block", "inline"}
  /\ source = <<>>
  /\ tokens = <<>>
  /\ current = 0
  /\ line = 1
  /\ column = 1
  /\ inCodeBlock = FALSE
  /\ currentFence = NULL
  /\ codeBlockLineNumber = 0
  /\ inCodeSpan = FALSE
  /\ emphasisMarker = NULL
  /\ strongMarker = NULL
  /\ scans = 0
  /\ pc = "new"
  /\ ret = NoCall
  /\ self = "A"
  /\ other = NoInstance
  /\ ref = <<>>

\* the constructor stores the source text the caller passes
Construct ==
  /\ kind \in {"block", "inline"}
  /\ pc = "new"
  /\ source' \in (IF kind = "block" THEN BlockSources ELSE InlineSources)
  /\ pc' = "loop"
  /\ UNCHANGED <<kind, tokens, current, line, column, blockVars, inlineVars, scans>>
  /\ UNCHANGED harnessVars

\* one iteration of the tokenize loop of a BlockLexer
BlockScanToken ==
  /\ kind = "block"
  /\ pc = "loop"
  /\ loopCondition(Cursor, scans)
  /\ scans < MaxScans
  /\ scans' = scans + 1
  /\ LET lineStartPos == getPosition(Cursor)
         r == readLine(Cursor)
         ln == r.result
     IN /\ SetCursor(r.cur)
        /\ IF inCodeBlock
           THEN IF isFence(ln, currentFence) /\ currentFence # NULL
                THEN /\ tokens' = emit(tokens, CodeBlockEndToken(lineStartPos, currentFence))
                     /\ inCodeBlock' = FALSE
                     /\ currentFence' = NULL
                     /\ codeBlockLineNumber' = 0
                ELSE /\ codeBlockLineNumber' = codeBlockLineNumber + 1
                     /\ tokens' = emit(tokens,
                          CodeBlockContentToken(lineStartPos, ln, codeBlockLineNumber + 1))
                     /\ UNCHANGED <<inCodeBlock, currentFence>>
           ELSE IF isBlank(ln)
                THEN /\ tokens' = emit(tokens, BlankLineToken(lineStartPos))
                     /\ UNCHANGED blockVars
           ELSE IF getFence(ln) # NULL
                THEN /\ tokens' = emit(tokens,
                          CodeBlockStartToken(lineStartPos, getFence(ln),
                                              extractLanguage(ln, getFence(ln))))
                     /\ inCodeBlock' = TRUE
                     /\ currentFence' = getFence(ln)
                     /\ codeBlockLineNumber' = 0
           ELSE /\ tokens' = emit(tokens, plainLineToken(lineStartPos, ln))
                /\ UNCHANGED blockVars
  /\ UNCHANGED <<kind, source, pc, inlineVars>>
  /\ UNCHANGED harnessVars

\* the first of the spellings that matchString accepts at the cursor
strongSpelling ==
  IF matchString(Cursor, <<"*", "*">>).ok THEN <<"*", "*">>
  ELSE IF matchString(Cursor, <<"_", "_">>).ok THEN <<"_", "_">>
  ELSE NULL

\* the first of the spellings that match accepts at the cursor
emphasisSpelling ==
  IF match(Cursor, "*").ok THEN <<"*">>
  ELSE IF match(Cursor, "_").ok THEN <<"_">>
  ELSE NULL

tryStrong(pos) ==
  LET r == strongCase(pos, strongSpelling, strongMarker)
  IN /\ SetCursor(matchString(Cursor, strongSpelling).cur)
     /\ tokens' = emit(tokens, r.token)
     /\ strongMarker' = r.marker
     /\ UNCHANGED <<inCodeSpan, emphasisMarker>>

\* tryEmphasis clearing the strong marker too when it closes the emphasis
tryEmphasis_clearsStrong(pos) ==
  LET r == emphasisCase(pos, emphasisSpelling, emphasisMarker)
  IN /\ SetCursor(match(Cursor, emphasisSpelling[1]).cur)
     /\ tokens' = emit(tokens, r.token)
     /\ emphasisMarker' = r.marker
     /\ strongMarker' = IF r.marker = NULL THEN NULL ELSE strongMarker
     /\ UNCHANGED inCodeSpan

tryEmphasis(pos) ==
  LET r == emphasisCase(pos, emphasisSpelling, emphasisMarker)
  IN /\ SetCursor(match(Cursor, emphasisSpelling[1]).cur)
     /\ tokens' = emit(tokens, r.token)
     /\ emphasisMarker' = r.marker
     /\ UNCHANGED <<inCodeSpan, strongMarker>>

tryCodeSpan(pos) ==
  /\ SetCursor(match(Cursor, BT).cur)
  /\ tokens' = emit(tokens, CodeSpanToken(pos, inCodeSpan))
  /\ inCodeSpan' = ~inCodeSpan
  /\ UNCHANGED <<emphasisMarker, strongMarker>>

\* tryLink without the test for the parenthesis: every closing bracket is
\* taken to start a url
tryLink_noParenCheck(pos) ==
  /\ IF match(Cursor, "[").ok
     THEN /\ SetCursor(match(Cursor, "[").cur)
          /\ tokens' = emit(tokens, LinkStartToken(pos))
     ELSE LET c == match(Cursor, "]").cur
          IN /\ SetCursor(linkUrlPart(c).cur)
             /\ tokens' = emit(tokens, LinkTextEndToken(pos)) \o linkUrlPart(c).tokens
  /\ UNCHANGED inlineVars

tryLink(pos) ==
  /\ IF match(Cursor, "[").ok
     THEN /\ SetCursor(match(Cursor, "[").cur)
          /\ tokens' = emit(tokens, LinkStartToken(pos))
     ELSE LET c == match(Cursor, "]").cur
          IN IF peek(c, 0) = "("
             THEN /\ SetCursor(linkUrlPart(c).cur)
                  /\ tokens' = emit(tokens, LinkTextEndToken(pos)) \o linkUrlPart(c).tokens
             ELSE /\ SetCursor(c)
                  /\ tokens' = emit(tokens, LinkTextEndToken(pos))
  /\ UNCHANGED inlineVars

\* the default text run of scanToken
textRun(pos) ==
  LET r == readUntilOneOf(Cursor, INLINE_DELIMITERS)
  IN /\ SetCursor(r.cur)
     /\ tokens' = IF Len(r.result) > 0 THEN emit(tokens, TextToken(pos, r.result))
                  ELSE tokens
     /\ UNCHANGED inlineVars

\* InlineScanToken trying emphasis before strong
InlineScanToken_emphasisFirst ==
  /\ kind = "inline"
  /\ pc = "loop"
  /\ ~isAtEnd(Cursor)
  /\ scans < MaxScans
  /\ scans' = scans + 1
  /\ LET pos == getPosition(Cursor)
     IN IF emphasisSpelling # NULL THEN tryEmphasis(pos)
        ELSE IF strongSpelling # NULL THEN tryStrong(pos)
        ELSE IF match(Cursor, BT).ok THEN tryCodeSpan(pos)
        ELSE IF match(Cursor, "[").ok \/ match(Cursor, "]").ok THEN tryLink(pos)
        ELSE textRun(pos)
  /\ UNCHANGED <<kind, source, pc, blockVars>>
  /\ UNCHANGED harnessVars

\* one iteration of the tokenize loop of an InlineLexer
InlineScanToken ==
  /\ kind = "inline"
  /\ pc = "loop"
  /\ loopCondition(Cursor, scans)
  /\ scans < MaxScans
  /\ scans' = scans + 1
  /\ LET pos == getPosition(Cursor)
     IN IF strongSpelling # NULL THEN tryStrong(pos)
        ELSE IF emphasisSpelling # NULL THEN tryEmphasis(pos)
        ELSE IF match(Cursor, BT).ok THEN tryCodeSpan(pos)
        ELSE IF match(Cursor, "[").ok \/ match(Cursor, "]").ok THEN tryLink(pos)
        ELSE textRun(pos)
  /\ UNCHANGED <<kind, source, pc, blockVars>>
  /\ UNCHANGED harnessVars

\* tokenize() leaves its loop and returns the tokens
Return ==
  /\ pc = "loop"
  /\ ~loopCondition(Cursor, scans)
  /\ pc' = "done"
  /\ UNCHANGED <<kind, source, tokens, current, line, column, blockVars, inlineVars, scans>>
  /\ UNCHANGED harnessVars

Next == Construct \/ BlockScanToken \/ InlineScanToken \/ Return

Spec == Init /\ [][Next]_vars

----------------------------------------------------------------------------
(* the base Lexer driven through its primitives, as TestableLexer exposes
   them: any sequence of peek, advance, match, matchString and scanToken *)

CursorChars == {"a", LF}

CursorSources == SeqsUpTo(CursorChars, MaxCursorLen)

\* the characters a caller may expect: those of the sources, one that no
\* source has, and the sentinel
ExpectedChars == CursorChars \cup {"b", NUL}

ExpectedStrings == SeqsUpTo(ExpectedChars, MaxExpectedLen)

Offsets == (0 - MaxOffset)..MaxOffset

TestToken(pos) == [type |-> "test", position |-> pos]

CursorInit ==
  /\ kind = "test"
  /\ source = <<>>
  /\ tokens = <<>>
  /\ current = 0
  /\ line = 1
  /\ column = 1
  /\ inCodeBlock = FALSE
  /\ currentFence = NULL
  /\ codeBlockLineNumber = 0
  /\ inCodeSpan = FALSE
  /\ emphasisMarker = NULL
  /\ strongMarker = NULL
  /\ scans = 0
  /\ pc = "new"
  /\ ret = NoCall
  /\ self = "A"
  /\ other = NoInstance
  /\ ref = <<>>

\* what no primitive touches
testFrame == <<kind, source, pc, blockVars, inlineVars, scans, self, other, ref>>

TestConstruct ==
  /\ kind = "test"
  /\ pc = "new"
  /\ source' \in CursorSources
  /\ pc' = "test"
  /\ UNCHANGED <<kind, tokens, current, line, column, blockVars, inlineVars, scans>>
  /\ UNCHANGED harnessVars

TestScanToken ==
  /\ pc = "test"
  /\ IF isAtEnd(Cursor)
     THEN UNCHANGED <<tokens, current, line, column>>
     ELSE /\ SetCursor(advance(Cursor))
          /\ tokens' = emit(tokens, TestToken(getPosition(Cursor)))
  /\ ret' = [op |-> "scanToken"]
  /\ UNCHANGED testFrame

TestPeek(offset) ==
  /\ pc = "test"
  /\ ret' = [op |-> "peek", arg |-> offset, value |-> peek(Cursor, offset)]
  /\ UNCHANGED <<tokens, current, line, column>>
  /\ UNCHANGED testFrame

TestAdvance ==
  /\ pc = "test"
  /\ ret' = [op |-> "advance", value |-> peek(Cursor, 0)]
  /\ SetCursor(advance(Cursor))
  /\ UNCHANGED tokens
  /\ UNCHANGED testFrame

TestMatch(expected) ==
  /\ pc = "test"
  /\ ret' = [op |-> "match", arg |-> expected, value |-> match(Cursor, expected).ok]
  /\ SetCursor(match(Cursor, expected).cur)
  /\ UNCHANGED tokens
  /\ UNCHANGED testFrame

TestMatchString(expected) ==
  /\ pc = "test"
  /\ ret' = [op |-> "matchString", arg |-> expected,
              value |-> matchString(Cursor, expected).ok]
  /\ SetCursor(matchString(Cursor, expected).cur)
  /\ UNCHANGED tokens
  /\ UNCHANGED testFrame

\* the loop of tokenize() over TestableLexer.scanToken, which returns at
\* once at the end of the source and otherwise advances and emits; n counts
\* the calls of scanToken
RECURSIVE testTokenizeLoop(_, _, _)
testTokenizeLoop(c, toks, n) ==
  IF loopCondition(c, n)
  THEN testTokenizeLoop(advance(c),
                        IF isAtEnd(c) THEN toks ELSE emit(toks, TestToken(getPosition(c))),
                        n + 1)
  ELSE [cur |-> c, tokens |-> toks, calls |-> n]

TestTokenize ==
  /\ pc = "test"
  /\ LET r == testTokenizeLoop(Cursor, tokens, 0)
     IN /\ SetCursor(r.cur)
        /\ tokens' = r.tokens
        /\ scans' = scans + r.calls
        /\ ret' = [op |-> "tokenize", value |-> r.tokens]
  /\ UNCHANGED <<kind, source, pc, blockVars, inlineVars, self, other, ref>>

CursorNext ==
  \/ TestConstruct
  \/ TestScanToken
  \/ TestTokenize
  \/ \E offset \in Offsets : TestPeek(offset)
  \/ TestAdvance
  \/ \E expected \in ExpectedChars : TestMatch(expected)
  \/ \E expected \in ExpectedStrings : TestMatchString(expected)

CursorSpec == CursorInit /\ [][CursorNext]_vars

\* a lexer of any of the three subclasses of Lexer
LexerInit == Init \/ CursorInit

LexerNext == Next \/ CursorNext

LexerSpec == LexerInit /\ [][LexerNext]_vars

----------------------------------------------------------------------------
(* two instances side by side: instance A runs alone first; then a new
   instance over the same source and a second instance B are constructed,
   and the caller makes their scan steps in any order *)

PairPieces == { <<"*", "*">>, <<"_">>, <<BT>>, <<"a">> }

PairLines == { <<BT, BT, BT>>, <<"a">> }

PairSources(k) ==
  IF k = "block"
  THEN { JoinLines(d) : d \in SeqsUpTo(PairLines, MaxPairPieces) }
  ELSE { Concat(ps) : ps \in SeqsUpTo(PairPieces, MaxPairPieces) }

\* the fields of the running instance, as one value
Instance ==
  [kind |-> kind, source |-> source, tokens |-> tokens, current |-> current,
   line |-> line, column |-> column, inCodeBlock |-> inCodeBlock,
   currentFence |-> currentFence, codeBlockLineNumber |-> codeBlockLineNumber,
   inCodeSpan |-> inCodeSpan, emphasisMarker |-> emphasisMarker,
   strongMarker |-> strongMarker, scans |-> scans, pc |-> pc]

\* a newly constructed instance of class k over the source s, about to
\* enter the loop of tokenize()
NewInstance(k, s) ==
  [kind |-> k, source |-> s, tokens |-> <<>>, current |-> 0,
   line |-> 1, column |-> 1, inCodeBlock |-> FALSE,
   currentFence |-> NULL, codeBlockLineNumber |-> 0,
   inCodeSpan |-> FALSE, emphasisMarker |-> NULL,
   strongMarker |-> NULL, scans |-> 0, pc |-> "loop"]

\* the fields that the next steps read and write are those of r
Run(r) ==
  /\ kind' = r.kind
  /\ source' = r.source
  /\ tokens' = r.tokens
  /\ current' = r.current
  /\ line' = r.line
  /\ column' = r.column
  /\ inCodeBlock' = r.inCodeBlock
  /\ currentFence' = r.currentFence
  /\ codeBlockLineNumber' = r.codeBlockLineNumber
  /\ inCodeSpan' = r.inCodeSpan
  /\ emphasisMarker' = r.emphasisMarker
  /\ strongMarker' = r.strongMarker
  /\ scans' = r.scans
  /\ pc' = r.pc

PairConstruct ==
  /\ pc = "new"
  /\ source' \in PairSources(kind)
  /\ pc' = "loop"
  /\ UNCHANGED <<kind, tokens, current, line, column, blockVars, inlineVars, scans>>
  /\ UNCHANGED harnessVars

\* the caller keeps what A returned alone and constructs the two instances
Fork ==
  /\ pc = "done"
  /\ other = NoInstance
  /\ ref' = tokens
  /\ Run(NewInstance(kind, source))
  /\ \E k \in {"block", "inline"} : \E s \in PairSources(k) : other' = NewInstance(k, s)
  /\ self' = "A"
  /\ UNCHANGED ret

\* Switch with strongMarker held in one place for all instances
Switch_sharedMarker ==
  /\ other # NoInstance
  /\ other.pc = "loop"
  /\ Run([other EXCEPT !.strongMarker = strongMarker])
  /\ other' = Instance
  /\ self' = IF self = "A" THEN "B" ELSE "A"
  /\ UNCHANGED <<ret, ref>>

\* the caller goes on with the other instance: the fields the methods read
\* and write are those of the instance they are called on
Switch ==
  /\ other # NoInstance
  /\ other.pc = "loop"
  /\ Run(other)
  /\ other' = Instance
  /\ self' = IF self = "A" THEN "B" ELSE "A"
  /\ UNCHANGED <<ret, ref>>

PairNext ==
  \/ PairConstruct
  \/ BlockScanToken
  \/ InlineScanToken
  \/ Return
  \/ Fork
  \/ Switch

PairSpec == Init /\ [][PairNext]_vars

----------------------------------------------------------------------------
(* Vocabulary of the properties, defined on the source text and the token  *)
(* sequence only                                                           *)

\* the character at 0-based offset i of the source, "" when there is none
CharAt(i) == IF i >= 0 /\ i < Len(source) THEN source[i + 1] ELSE ""

\* the source text split at its line-feeds
RECURSIVE SplitLines(_)
SplitLines(s) ==
  IF \A i \in 1..Len(s) : s[i] # LF THEN <<s>>
  ELSE LET k == CHOOSE i \in 1..Len(s) : s[i] = LF /\ \A j \in 1..(i - 1) : s[j] # LF
       IN <<SubSeq(s, 1, k - 1)>> \o SplitLines(SubSeq(s, k + 1, Len(s)))

\* the text of line n (1-based) of the source
SourceLine(n) == SplitLines(source)[n]

\* the line that starts at the cursor
LineAtCursor == Head(SplitLines(SubSeq(source, current + 1, Len(source))))

PosLeq(p, q) == p.line < q.line \/ (p.line = q.line /\ p.column <= q.column)

LastToken == tokens[Len(tokens)]

TypesOf(toks) == [i \in 1..Len(toks) |-> toks[i].type]

BlockStep == kind = "block" /\ pc = "loop" /\ current < Len(source)

InlineStep == kind = "inline" /\ pc = "loop" /\ current < Len(source)

----------------------------------------------------------------------------
\* C1: tokenize() of both lexers terminates: every scanToken invocation made
\* by the drive loop (a step that counts one more scan) strictly increases
\* the offset current, which never exceeds the source length, so the loop
\* makes at most as many calls as the source has characters (fewer than
\* MaxScans, so that no run is cut short); and the loop is left with current
\* equal to the source length.
C1_Terminates ==
  /\ [][scans' = scans + 1 => (current < current' /\ current' <= Len(source))]_vars
  /\ [](scans <= current /\ current <= Len(source))
  /\ []((pc = "loop" /\ current < Len(source)) => scans < MaxScans)
  /\ [](pc = "done" => current = Len(source))

C1_Witness ==
  /\ pc = "done"
  /\ kind = "inline"
  /\ current = Len(source)
  /\ Len(tokens) >= 3
  /\ LastToken.type = "linkEnd"
  /\ source[Len(source)] # ")"

\* C2: the positions of consecutive tokens are non-decreasing in
\* lexicographic (line, column) order, for both lexers.
C2_PositionsNonDecreasing ==
  \A i \in 1..(Len(tokens) - 1) : PosLeq(tokens[i].position, tokens[i + 1].position)

C2_Witness ==
  /\ kind = "inline"
  /\ Len(tokens) >= 3
  /\ tokens[Len(tokens) - 2].type = "linkTextEnd"
  /\ tokens[Len(tokens) - 1].type = "linkUrl"
  /\ LastToken.type = "linkEnd"
  /\ LastToken.position.line > tokens[Len(tokens) - 1].position.line

\* s begins with the characters of p
BeginsWith(s, p) == Len(s) >= Len(p) /\ SubSeq(s, 1, Len(p)) = p

Backticks3 == <<BT, BT, BT>>

Tildes3 == <<"~", "~", "~">>

\* ln begins with the fence of the family that f does not belong to
OtherFamily(ln, f) ==
  \/ f = Backticks3 /\ BeginsWith(ln, Tildes3)
  \/ f = Tildes3 /\ BeginsWith(ln, Backticks3)

\* the index of the last codeBlockStart token of toks, 0 when there is none
LastStart(toks) ==
  LET S == {i \in 1..Len(toks) : toks[i].type = "codeBlockStart"}
  IN IF S = {} THEN 0 ELSE CHOOSE i \in S : \A j \in S : j <= i

\* C3: a codeBlockEnd token is emitted only for a line read while inCodeBlock
\* is true that begins with the exact fence of the most recent codeBlockStart,
\* and it carries that fence; a line that begins with the fence of the other
\* family never closes the block and is emitted as codeBlockContent.
C3_ExactFenceCloses ==
  [][BlockStep =>
       LET ln == LineAtCursor
           t == tokens'[Len(tokens')]
           j == LastStart(tokens)
       IN /\ Len(tokens') = Len(tokens) + 1
          /\ t.type = "codeBlockEnd" =>
               /\ inCodeBlock
               /\ j > 0
               /\ BeginsWith(ln, tokens[j].fence)
               /\ t.fence = tokens[j].fence
          /\ (inCodeBlock /\ j > 0 /\ OtherFamily(ln, tokens[j].fence)) =>
               /\ t.type = "codeBlockContent"
               /\ t.content = ln
               /\ inCodeBlock']_vars

C3_Witness ==
  /\ kind = "block"
  /\ \E i \in 1..(Len(tokens) - 2) :
       /\ tokens[i].type = "codeBlockStart" /\ tokens[i].fence = Backticks3
       /\ tokens[i + 1].type = "codeBlockContent" /\ tokens[i + 1].content = Tildes3
       /\ tokens[i + 2].type = "codeBlockEnd" /\ tokens[i + 2].fence = Backticks3

\* C4: fenced regions are well bracketed: the token after a codeBlockStart or
\* a codeBlockContent is a codeBlockContent, whose content is the raw line, or
\* a codeBlockEnd; these two kinds occur nowhere else; and when no line after
\* a codeBlockStart begins with its fence, every later token is
\* codeBlockContent.
C4_WellBracketed ==
  kind = "block" =>
    /\ \A i \in 1..Len(tokens) :
         LET t == tokens[i]
             inRegion == i > 1 /\ tokens[i - 1].type \in {"codeBlockStart", "codeBlockContent"}
         IN /\ inRegion <=> t.type \in {"codeBlockContent", "codeBlockEnd"}
            /\ t.type = "codeBlockContent" => t.content = SourceLine(t.position.line)
    /\ \A j \in 1..Len(tokens) :
         (/\ tokens[j].type = "codeBlockStart"
          /\ \A n \in (tokens[j].position.line + 1)..Len(SplitLines(source)) :
               ~BeginsWith(SourceLine(n), tokens[j].fence))
         => \A k \in (j + 1)..Len(tokens) : tokens[k].type = "codeBlockContent"

C4_Witness ==
  /\ kind = "block"
  /\ Len(tokens) = 3
  /\ tokens[1].type = "codeBlockStart"
  /\ tokens[2].type = "codeBlockContent" /\ tokens[2].content = <<"#", " ", "a">>
  /\ tokens[3].type = "codeBlockEnd"

\* C5: the first codeBlockContent after a codeBlockStart has lineInBlock 1,
\* each further one of the block has one more than the one before it, and the
\* line counter is 0 whenever inCodeBlock is false.
C5_LineInBlock ==
  kind = "block" =>
    /\ \A i \in 2..Len(tokens) :
         tokens[i].type = "codeBlockContent" =>
           /\ tokens[i - 1].type = "codeBlockStart" => tokens[i].lineInBlock = 1
           /\ tokens[i - 1].type = "codeBlockContent" =>
                tokens[i].lineInBlock = tokens[i - 1].lineInBlock + 1
    /\ ~inCodeBlock => codeBlockLineNumber = 0

C5_Witness ==
  /\ kind = "block"
  /\ TypesOf(tokens) = <<"codeBlockStart", "codeBlockContent", "codeBlockContent",
                         "codeBlockEnd", "codeBlockStart", "codeBlockContent">>
  /\ tokens[3].lineInBlock = 2
  /\ tokens[6].lineInBlock = 1

CountLF(s) == Cardinality({i \in 1..Len(s) : s[i] = LF})

\* C6: BlockLexer emits exactly one token per line: the k-th token has
\* position (k, 1), no content field holds a line-feed, and the returned
\* sequence has as many tokens as the source has line-feeds, plus one if the
\* source is not empty and does not end with a line-feed.
C6_OneTokenPerLine ==
  kind = "block" =>
    /\ \A k \in 1..Len(tokens) :
         /\ tokens[k].position = [line |-> k, column |-> 1]
         /\ "content" \in DOMAIN tokens[k] =>
              \A i \in 1..Len(tokens[k].content) : tokens[k].content[i] # LF
    /\ pc = "done" =>
         Len(tokens) = CountLF(source)
                       + (IF source # <<>> /\ source[Len(source)] # LF THEN 1 ELSE 0)

C6_Witness ==
  /\ kind = "block"
  /\ pc = "done"
  /\ Len(tokens) = 3
  /\ CountLF(source) = 3
  /\ tokens[2].type = "blankLine"
  /\ tokens[3].type = "textLine"

----------------------------------------------------------------------------
(* InlineLexer properties *)

\* a scan step is about to start at a two-character strong delimiter
StrongAt ==
  /\ InlineStep
  /\ CharAt(current) \in {"*", "_"}
  /\ CharAt(current + 1) = CharAt(current)

\* a scan step is about to start at a single emphasis delimiter
EmphasisAt ==
  /\ InlineStep
  /\ CharAt(current) \in {"*", "_"}
  /\ CharAt(current + 1) # CharAt(current)

BacktickAt == InlineStep /\ CharAt(current) = BT

\* the step appends exactly one token
EmitsOne == Len(tokens') = Len(tokens) + 1 /\ SubSeq(tokens', 1, Len(tokens)) = tokens

NewToken == tokens'[Len(tokens')]

\* C7: a scan step that starts at the strong delimiter S consumes exactly two
\* characters and emits strongStart(S), setting strongMarker to S, when
\* strongMarker is unset; strongEnd(S), unsetting strongMarker, when
\* strongMarker is S; and the text token S, leaving strongMarker unchanged,
\* when strongMarker is the other spelling.
C7_StrongToggle ==
  [][StrongAt =>
       LET S == <<CharAt(current), CharAt(current + 1)>>
       IN /\ current' = current + 2
          /\ EmitsOne
          /\ strongMarker = NULL =>
               /\ NewToken.type = "strongStart" /\ NewToken.marker = S
               /\ strongMarker' = S
          /\ strongMarker = S =>
               /\ NewToken.type = "strongEnd" /\ NewToken.marker = S
               /\ strongMarker' = NULL
          /\ strongMarker \notin {NULL, S} =>
               /\ NewToken.type = "text" /\ NewToken.content = S
               /\ strongMarker' = strongMarker]_vars

C7_Witness ==
  /\ kind = "inline"
  /\ \E i \in 1..(Len(tokens) - 2) :
       /\ tokens[i].type = "strongStart" /\ tokens[i].marker = <<"*", "*">>
       /\ tokens[i + 1].type = "text" /\ tokens[i + 1].content = <<"_", "_">>
       /\ tokens[i + 2].type = "strongEnd" /\ tokens[i + 2].marker = <<"*", "*">>

\* C8: emphasis and strong state are orthogonal: a scan step at a single * or
\* _ opens, closes or demotes to literal text by the value of emphasisMarker
\* alone and leaves strongMarker and inCodeSpan unchanged; a scan step at **
\* or __ leaves emphasisMarker and inCodeSpan unchanged.
C8_Orthogonal ==
  [][/\ EmphasisAt =>
          LET M == <<CharAt(current)>>
          IN /\ current' = current + 1
             /\ EmitsOne
             /\ emphasisMarker = NULL =>
                  /\ NewToken.type = "emphasisStart" /\ NewToken.marker = M
                  /\ emphasisMarker' = M
             /\ emphasisMarker = M =>
                  /\ NewToken.type = "emphasisEnd" /\ NewToken.marker = M
                  /\ emphasisMarker' = NULL
             /\ emphasisMarker \notin {NULL, M} =>
                  /\ NewToken.type = "text" /\ NewToken.content = M
                  /\ emphasisMarker' = emphasisMarker
             /\ strongMarker' = strongMarker
             /\ inCodeSpan' = inCodeSpan
     /\ StrongAt => (emphasisMarker' = emphasisMarker /\ inCodeSpan' = inCodeSpan)]_vars

C8_Witness ==
  /\ kind = "inline"
  /\ TypesOf(tokens) = <<"emphasisStart", "strongStart", "emphasisEnd">>
  /\ strongMarker = <<"*", "*">>
  /\ emphasisMarker = NULL

\* C9: strong is attempted before emphasis: a scan step that starts where the
\* next two characters are ** or __ consumes both and emits exactly one
\* token, which is strongStart, strongEnd or the two-character literal text,
\* never an emphasis token or a one-character literal.
C9_StrongBeforeEmphasis ==
  [][StrongAt =>
       /\ current' = current + 2
       /\ EmitsOne
       /\ \/ NewToken.type \in {"strongStart", "strongEnd"}
          \/ /\ NewToken.type = "text"
             /\ NewToken.content = <<CharAt(current), CharAt(current + 1)>>]_vars

C9_Witness ==
  /\ kind = "inline"
  /\ TypesOf(tokens) = <<"emphasisStart", "text", "strongStart">>
  /\ emphasisMarker = <<"*">>
  /\ strongMarker = <<"*", "*">>

IsCodeToken(t) == t.type \in {"codeStart", "codeEnd"}

\* C10: every backtick at which a scan step begins toggles inCodeSpan and
\* emits exactly one token, codeStart when inCodeSpan was false and codeEnd
\* when it was true; so the codeStart and codeEnd tokens alternate, beginning
\* with codeStart, and the end of the input adds no closing token.
C10_CodeSpanToggle ==
  /\ [][/\ BacktickAt =>
             /\ current' = current + 1
             /\ EmitsOne
             /\ NewToken.type = (IF inCodeSpan THEN "codeEnd" ELSE "codeStart")
             /\ inCodeSpan' = ~inCodeSpan
        /\ pc' = "done" => tokens' = tokens]_vars
  /\ [](kind = "inline" =>
          LET code == SelectSeq(tokens, IsCodeToken)
          IN /\ \A i \in 1..Len(code) :
                  code[i].type = (IF i % 2 = 1 THEN "codeStart" ELSE "codeEnd")
             /\ inCodeSpan <=> Len(code) % 2 = 1)

C10_Witness ==
  /\ kind = "inline"
  /\ pc = "done"
  /\ TypesOf(tokens) = <<"codeStart", "codeEnd", "codeStart">>
  /\ inCodeSpan

----------------------------------------------------------------------------
(* links *)

\* the position (line, column) of the character at offset k of the source,
\* counted from the text of the source
PositionAt(k) ==
  LET before == {i \in 0..(k - 1) : CharAt(i) = LF}
      lastLF == IF before = {} THEN 0 - 1 ELSE CHOOSE i \in before : \A j \in before : j <= i
  IN [line |-> 1 + Cardinality(before), column |-> k - lastLF]

\* a scan step is about to start at a closing bracket that an opening
\* parenthesis follows
LinkUrlAt == InlineStep /\ CharAt(current) = "]" /\ CharAt(current + 1) = "("

\* the step appends exactly n tokens
EmitsMany(n) == Len(tokens') = Len(tokens) + n /\ SubSeq(tokens', 1, Len(tokens)) = tokens

\* C11: a scan step that starts at a closing bracket immediately followed by
\* an opening parenthesis emits linkTextEnd, linkUrl and linkEnd in this
\* order; the url is the source text after the parenthesis up to, excluding,
\* the next closing parenthesis; linkUrl is positioned at the first character
\* after the opening parenthesis; linkEnd is positioned at a closing
\* parenthesis of the source, and the step consumes that parenthesis. Claimed
\* for every input, also one in which no closing parenthesis follows.
C11_LinkUrl ==
  [][LinkUrlAt =>
       LET open == current + 2
           closers == {i \in open..(Len(source) - 1) : CharAt(i) = ")"}
           n == Len(tokens)
       IN /\ EmitsMany(3)
          /\ tokens'[n + 1].type = "linkTextEnd"
          /\ tokens'[n + 2].type = "linkUrl"
          /\ tokens'[n + 3].type = "linkEnd"
          /\ tokens'[n + 2].position = PositionAt(open)
          /\ closers # {}
          /\ LET k == CHOOSE i \in closers : \A j \in closers : i <= j
             IN /\ tokens'[n + 2].url = SubSeq(source, open + 1, k)
                /\ tokens'[n + 3].position = PositionAt(k)
                /\ CharAt(k) = ")"
                /\ current' = k + 1]_vars

\* a link whose parenthesis is never closed has been scanned to the end
C11_Unclosed ==
  /\ kind = "inline"
  /\ pc = "done"
  /\ source = <<"]", "(", "a">>
  /\ TypesOf(tokens) = <<"linkTextEnd", "linkUrl", "linkEnd">>
  /\ tokens[3].position = [line |-> 1, column |-> 4]

\* C12: a scan step that starts at a closing bracket whose next character is
\* not an opening parenthesis (also when the bracket ends the input) emits
\* exactly one token, linkTextEnd, and consumes exactly one character, so no
\* linkUrl or linkEnd; a scan step that starts at an opening bracket emits
\* exactly linkStart and consumes one character, in every marker state.
C12_BracketAlone ==
  [][/\ (InlineStep /\ CharAt(current) = "]" /\ CharAt(current + 1) # "(") =>
          /\ EmitsOne
          /\ NewToken = [type |-> "linkTextEnd", position |-> PositionAt(current)]
          /\ current' = current + 1
     /\ (InlineStep /\ CharAt(current) = "[") =>
          /\ EmitsOne
          /\ NewToken = [type |-> "linkStart", position |-> PositionAt(current)]
          /\ current' = current + 1]_vars

C12_Witness ==
  /\ kind = "inline"
  /\ pc = "done"
  /\ source = <<"*", "*", "[", "]">>
  /\ strongMarker = <<"*", "*">>
  /\ TypesOf(tokens) = <<"strongStart", "linkStart", "linkTextEnd">>
  /\ current = 4

----------------------------------------------------------------------------
(* plain text *)

\* C13: no zero-length text token is emitted by InlineLexer and no
\* zero-length textLine token by BlockLexer: every token of type text or
\* textLine has a content of at least one character.
C13_NoEmptyText ==
  \A i \in 1..Len(tokens) :
    tokens[i].type \in {"text", "textLine"} => Len(tokens[i].content) >= 1

C13_Witness ==
  /\ kind = "block"
  /\ pc = "done"
  /\ source = <<"a", LF, LF, " ">>
  /\ TypesOf(tokens) = <<"textLine", "blankLine", "blankLine">>
  /\ tokens[1].content = <<"a">>

\* the block lexer has returned textLine and blankLine tokens only
PlainOutput ==
  /\ kind = "block"
  /\ pc = "done"
  /\ \A i \in 1..Len(tokens) : tokens[i].type \in {"textLine", "blankLine"}

\* the content fields of toks, a blankLine contributing none, put together
\* with the line-feeds that were consumed between and after the lines
Reconstruct(toks) ==
  JoinLines([i \in 1..Len(toks) |->
               IF toks[i].type = "textLine" THEN toks[i].content ELSE <<>>])
    \o (IF source # <<>> /\ source[Len(source)] = LF THEN <<LF>> ELSE <<>>)

\* C14 as stated: for every block input whose output has textLine and
\* blankLine tokens only, the content fields, joined by the consumed
\* line-feeds, give back the input character for character.
C14_RoundTrip == PlainOutput => Reconstruct(tokens) = source

\* C14: for every block input whose output has textLine and blankLine tokens
\* only and whose blankLine tokens all stand for empty lines, the content
\* fields, joined by the consumed line-feeds, give back the input character
\* for character (a line of whitespace alone is a blankLine too, and its
\* characters are in no token).
C14_RoundTripEmptyBlanks ==
  (/\ PlainOutput
   /\ \A i \in 1..Len(tokens) :
        tokens[i].type = "blankLine" => SourceLine(tokens[i].position.line) = <<>>)
  => Reconstruct(tokens) = source

C14_Witness ==
  /\ PlainOutput
  /\ source = <<"a", LF, LF, "a", LF>>
  /\ TypesOf(tokens) = <<"textLine", "blankLine", "textLine">>
  /\ Reconstruct(tokens) = source

----------------------------------------------------------------------------
(* the cursor primitives *)

\* the step is a call of the primitive op (a call that changes nothing and
\* returns what the call before it returned is a stuttering step)
Called(op) == ret'.op = op

\* the cursor is where it was
CursorKept == current' = current /\ line' = line /\ column' = column

\* the cursor is at offset k, with the line and column of offset k
CursorMovedTo(k) ==
  current' = k /\ [line |-> line', column |-> column'] = PositionAt(k)

\* the source characters at offsets current .. current + Len(e) - 1 are e
SourceHas(e) ==
  \A i \in 1..Len(e) : current + i - 1 < Len(source) /\ source[current + i] = e[i]

\* C15: conditional consumption is all or nothing, for every cursor state
\* and every expected string: matchString(expected) returns true exactly when
\* the source characters at offsets current .. current + |expected| - 1 are
\* expected, and then the cursor advances by exactly |expected| characters;
\* otherwise it returns false and current, line and column are unchanged.
\* match(c) returns true and advances by one character exactly when the
\* current character is c, and otherwise returns false and leaves the cursor.
C15_AllOrNothing ==
  [][/\ Called("matchString") =>
          LET e == ret'.arg
          IN /\ ret'.value <=> SourceHas(e)
             /\ SourceHas(e) => CursorMovedTo(current + Len(e))
             /\ ~SourceHas(e) => CursorKept
     /\ Called("match") =>
          LET e == <<ret'.arg>>
          IN /\ ret'.value <=> SourceHas(e)
             /\ SourceHas(e) => CursorMovedTo(current + 1)
             /\ ~SourceHas(e) => CursorKept]_vars

\* matchString has accepted an expected string that runs past the end
C15_PastEnd ==
  /\ kind = "test"
  /\ source = <<"a">>
  /\ ret = [op |-> "matchString", arg |-> <<"a", NUL>>, value |-> TRUE]
  /\ current = 1

\* C16: for every cursor state and every integer offset, peek(offset) leaves
\* current, line, column and the token sequence unchanged, returns the source
\* character at index current + offset when that index is inside the source,
\* and returns the sentinel whenever the index is outside the source.
C16_PeekTotal ==
  [][Called("peek") =>
       LET index == current + ret'.arg
       IN /\ CursorKept
          /\ tokens' = tokens
          /\ IF index >= 0 /\ index < Len(source)
             THEN ret'.value = source[index + 1]
             ELSE ret'.value = NUL]_vars

\* peek has looked before the start of the source
C16_BeforeStart ==
  /\ kind = "test"
  /\ source = <<"a">>
  /\ current = 0
  /\ ret = [op |-> "peek", arg |-> 0 - 1, value |-> NOCHAR]

\* C17: advance() when not at the end returns the character at the current
\* offset and moves the offset forward by exactly one; after a line-feed the
\* line is one more and the column is 1, after any other character the
\* column is one more and the line is unchanged. advance() at the end returns
\* the sentinel and leaves current, line and column unchanged, so the cursor
\* stays at the end under any number of further calls.
C17_Advance ==
  [][Called("advance") =>
       IF current < Len(source)
       THEN /\ ret'.value = source[current + 1]
            /\ current' = current + 1
            /\ IF source[current + 1] = LF
               THEN line' = line + 1 /\ column' = 1
               ELSE line' = line /\ column' = column + 1
       ELSE /\ ret'.value = NUL
            /\ CursorKept
            /\ current' >= Len(source)]_vars

C17_Witness ==
  /\ kind = "test"
  /\ source = <<"a", LF>>
  /\ ret = [op |-> "advance", value |-> NUL]
  /\ tokens = <<>>
  /\ current = 2
  /\ line = 2
  /\ column = 1

----------------------------------------------------------------------------
(* headings and blockquotes *)

\* the number of characters at the start of s that belong to S
RECURSIVE RunLength(_, _)
RunLength(s, S) ==
  IF s # <<>> /\ Head(s) \in S THEN 1 + RunLength(Tail(s), S) ELSE 0

Whitespace == {" ", TAB, CR, LF}

\* a scan step is about to read a line outside a fence
OutsideFenceStep == BlockStep /\ ~inCodeBlock

\* C18: a line read outside a fence that is not blank, does not begin with
\* a fence, and consists of one to six hashes, at least one whitespace
\* character and then any characters other than line-feed yields exactly one
\* heading token, whose level is the number of hashes and whose content is
\* everything after the whitespace; a line that begins with seven or more
\* hashes yields a textLine with the whole line as its content.
C18_Heading ==
  [][OutsideFenceStep =>
       LET ln == LineAtCursor
           h == RunLength(ln, {"#"})
           w == RunLength(SubSeq(ln, h + 1, Len(ln)), Whitespace)
       IN /\ (h >= 1 /\ h <= 6 /\ w >= 1) =>
               /\ EmitsOne
               /\ NewToken = [type |-> "heading", position |-> PositionAt(current),
                              level |-> h, content |-> SubSeq(ln, h + w + 1, Len(ln))]
          /\ h >= 7 =>
               /\ EmitsOne
               /\ NewToken = [type |-> "textLine", position |-> PositionAt(current),
                              content |-> ln]]_vars

\* a heading line that ends with a carriage return has become a textLine
C18_CarriageReturn ==
  /\ kind = "block"
  /\ source = <<"#", " ", "a", CR>>
  /\ TypesOf(tokens) = <<"textLine">>

\* C19: every line read outside a fence that begins with > yields exactly
\* one blockquote token, whose content is the line without the > and, when
\* the character right after the > is a space, without that one space; no
\* other character is dropped (a second space, or a tab after the >, stays).
C19_Blockquote ==
  [][(OutsideFenceStep /\ BeginsWith(LineAtCursor, <<">">>)) =>
       LET ln == LineAtCursor
           skip == IF Len(ln) >= 2 /\ ln[2] = " " THEN 2 ELSE 1
       IN /\ EmitsOne
          /\ NewToken = [type |-> "blockquote", position |-> PositionAt(current),
                         content |-> SubSeq(ln, skip + 1, Len(ln))]]_vars

\* the tab after the > is not in the content of the blockquote
C19_TabDropped ==
  /\ kind = "block"
  /\ source = <<">", TAB, "a">>
  /\ Len(tokens) = 1
  /\ tokens[1].type = "blockquote"
  /\ tokens[1].content = <<"a">>

----------------------------------------------------------------------------
(* instances *)

\* the two instances have been constructed
Paired == other # NoInstance

\* instance A and instance B, whichever of them is running
InstanceA == IF self = "A" THEN Instance ELSE other

InstanceB == IF self = "B" THEN Instance ELSE other

----------------------------------------------------------------------------
(* the tokenize loop and the cursor *)

\* C21: for the empty source, tokenize() of BlockLexer, of InlineLexer and
\* of any other subclass of Lexer returns the empty token sequence without
\* a call of scanToken, and the cursor stays at offset 0, line 1, column 1.
C21_EmptySource ==
  (pc # "new" /\ source = <<>>) =>
    /\ tokens = <<>>
    /\ scans = 0
    /\ current = 0 /\ line = 1 /\ column = 1
    /\ ret.op = "tokenize" => ret.value = <<>>

C21_Witness ==
  /\ kind = "block"
  /\ pc = "done"
  /\ source = <<>>
  /\ tokens = <<>>
  /\ scans = 0

\* C22: after any sequence of peek, advance, match and matchString calls,
\* and in every state of a tokenize() run of either lexer, the offset current
\* lies between 0 and the length of the source and never decreases, line is
\* 1 plus the number of line-feeds before the offset, and column is 1 plus
\* the number of characters between the last of these line-feeds and the
\* offset.
C22_CursorPosition ==
  /\ [](/\ 0 <= current
         /\ current <= Len(source)
         /\ getPosition(Cursor) = PositionAt(current))
  /\ [][current' >= current]_vars

C22_Witness ==
  /\ kind = "test"
  /\ source = <<LF, "a">>
  /\ ret = [op |-> "matchString", arg |-> <<LF, "a">>, value |-> TRUE]
  /\ current = 2
  /\ line = 2
  /\ column = 2

----------------------------------------------------------------------------
(* the shape of an InlineLexer output *)

\* the tokens of toks whose type is in T, in their order
OfTypes(toks, T) == SelectSeq(toks, LAMBDA t : t.type \in T)

\* S is start, end, start, end, .. and every end has the marker of the start
\* before it
Alternates(S, start, end) ==
  \A i \in 1..Len(S) :
    IF i % 2 = 1 THEN S[i].type = start
    ELSE S[i].type = end /\ S[i].marker = S[i - 1].marker

\* the marker field is set exactly when one more start than end was
\* emitted, and unset exactly when as many
MarkerCounts(marker, start, end) ==
  LET starts == Len(OfTypes(tokens, {start}))
      ends == Len(OfTypes(tokens, {end}))
  IN /\ marker # NULL <=> starts = ends + 1
     /\ marker = NULL <=> starts = ends

\* C23: in every InlineLexer output strongStart and strongEnd alternate,
\* beginning with strongStart, and every strongEnd has the marker of the
\* strongStart before it; likewise emphasisStart and emphasisEnd. At every
\* point of the scan strongMarker (emphasisMarker) is set exactly when one
\* more start than end token was emitted and unset exactly when the counts
\* are equal.
C23_Alternation ==
  kind = "inline" =>
    /\ Alternates(OfTypes(tokens, {"strongStart", "strongEnd"}), "strongStart", "strongEnd")
    /\ Alternates(OfTypes(tokens, {"emphasisStart", "emphasisEnd"}),
                  "emphasisStart", "emphasisEnd")
    /\ MarkerCounts(strongMarker, "strongStart", "strongEnd")
    /\ MarkerCounts(emphasisMarker, "emphasisStart", "emphasisEnd")

C23_Witness ==
  /\ kind = "inline"
  /\ pc = "done"
  /\ source = <<"*", "_", "*", "_">>
  /\ TypesOf(tokens) = <<"emphasisStart", "text", "emphasisEnd", "emphasisStart">>
  /\ tokens[4].marker = <<"_">>
  /\ emphasisMarker = <<"_">>

\* a linkUrl token has a linkTextEnd before it and a linkEnd after it, and a
\* linkEnd token has a linkUrl before it
LinkTriples ==
  \A i \in 1..Len(tokens) :
    /\ tokens[i].type = "linkUrl" =>
         /\ i > 1 /\ tokens[i - 1].type = "linkTextEnd"
         /\ i < Len(tokens) /\ tokens[i + 1].type = "linkEnd"
    /\ tokens[i].type = "linkEnd" =>
         (i > 1 /\ tokens[i - 1].type = "linkUrl")

\* the first token of a step that starts at a bracket is the token of that
\* bracket
BracketTokens ==
  /\ (InlineStep /\ CharAt(current) = "[") =>
       (Len(tokens') > Len(tokens) /\ tokens'[Len(tokens) + 1].type = "linkStart")
  /\ (InlineStep /\ CharAt(current) = "]") =>
       (Len(tokens') > Len(tokens) /\ tokens'[Len(tokens) + 1].type = "linkTextEnd")

\* C24: in every InlineLexer output a linkUrl token stands right after a
\* linkTextEnd token and right before a linkEnd token, and a linkEnd token
\* stands right after a linkUrl token; linkStart and linkTextEnd are emitted
\* for every opening and closing bracket at which a scan step starts, so a
\* linkTextEnd may have no linkStart before it.
C24_LinkTriple ==
  /\ [](kind = "inline" => LinkTriples)
  /\ [][BracketTokens]_vars

C24_Witness ==
  /\ kind = "inline"
  /\ pc = "done"
  /\ source = <<"]", "(", ")">>
  /\ TypesOf(tokens) = <<"linkTextEnd", "linkUrl", "linkEnd">>
  /\ tokens[2].url = <<>>

\* the offset at which the url that starts at offset open stops: that of the
\* next closing parenthesis, or the end of the source when there is none
UrlStop(open) ==
  LET closers == {i \in open..(Len(source) - 1) : CharAt(i) = ")"}
  IN IF closers = {} THEN Len(source)
     ELSE CHOOSE i \in closers : \A j \in closers : i <= j

\* C25: while a link url is read (the characters between the opening
\* parenthesis after a closing bracket and the next closing parenthesis or
\* the end of the input), the delimiter characters in it are copied into
\* linkUrl.url as they are: the step emits linkTextEnd, linkUrl and linkEnd
\* and no token for them, scans past the whole url, and leaves
\* emphasisMarker, strongMarker and inCodeSpan as they were before the
\* bracket.
C25_UrlVerbatim ==
  [][LinkUrlAt =>
       LET open == current + 2
           stop == UrlStop(open)
       IN /\ EmitsMany(3)
          /\ tokens'[Len(tokens) + 2].type = "linkUrl"
          /\ tokens'[Len(tokens) + 2].url = SubSeq(source, open + 1, stop)
          /\ current' = Min(stop + 1, Len(source))
          /\ emphasisMarker' = emphasisMarker
          /\ strongMarker' = strongMarker
          /\ inCodeSpan' = inCodeSpan]_vars

C25_Witness ==
  /\ kind = "inline"
  /\ pc = "done"
  /\ source = <<"*", "*", "]", "(", "*", "_", ")">>
  /\ TypesOf(tokens) = <<"strongStart", "linkTextEnd", "linkUrl", "linkEnd">>
  /\ tokens[3].url = <<"*", "_">>
  /\ strongMarker = <<"*", "*">>
  /\ emphasisMarker = NULL


====
